---- MODULE Spec2Model ----
(***************************************************************************)
(* Mortgage scenario engine of finance-cockpit (src/domain/mortgage).      *)
(*                                                                         *)
(* Representation.                                                         *)
(*  - An ISODate "YYYY-MM-DD" is the integer YYYYMMDD; for four-digit      *)
(*    years the lexicographic order of the strings is the order of the     *)
(*    integers.  A JavaScript Date at UTC midnight is the number of days   *)
(*    since 1970-01-01 (its epoch milliseconds divided by 86400000).       *)
(*  - Money is exact.  The monthly rate annualRate / 12 is the fraction    *)
(*    rateNum / rateDen carried by the terms, input amounts are whole      *)
(*    cents, and every amount the engine computes is an integer number of  *)
(*    units, UnitsPerCent(terms) units to the cent, chosen so that the     *)
(*    annuity payment and every month's interest are whole numbers of      *)
(*    units (no rounding takes place).                                     *)
(*  - A thrown Error is the record [ok |-> FALSE, error |-> message].      *)
(*                                                                         *)
(* The module also holds the state synchroniser (src/domain/persistence/   *)
(* sync.ts) and the sync worker (src/workers/sync-worker): the worker's    *)
(* key-value store, its clock, each device's local storage and each        *)
(* device's call of syncNow.                                               *)
(***************************************************************************)
EXTENDS Integers, Sequences, FiniteSets, TLC

VARIABLES terms, pastPrepayments, asOfDate, scenarioConfigs, pc, result
VARIABLES kv, clock, storage, proc

syncVars == <<kv, clock, storage, proc>>

vars == <<terms, pastPrepayments, asOfDate, scenarioConfigs, pc, result, syncVars>>

(***************************************************************************)
(* Bounds of the model.                                                    *)
(***************************************************************************)
MaxTerm == 4
MaxLog == 2

None == 0

Max(a, b) == IF a >= b THEN a ELSE b
Min(a, b) == IF a <= b THEN a ELSE b

RECURSIVE Pow(_, _)
Pow(x, n) == IF n <= 0 THEN 1 ELSE x * Pow(x, n - 1)

Throw(msg) == [ok |-> FALSE, error |-> msg]

\* const x = v; Body(x): x is bound to the value of v, computed once.
Bind(v, Body(_)) == CHOOSE r \in {Body(x) : x \in {v}} : TRUE

(***************************************************************************)
(* Calendar: Date.UTC, getUTCFullYear/Month/Date and ISO strings.          *)
(***************************************************************************)
Year(iso) == iso \div 10000
Month(iso) == (iso \div 100) % 100
Day(iso) == iso % 100
MkIso(y, m, d) == y * 10000 + m * 100 + d

\* Days since 1970-01-01 of the first day of month index m0 (0-based, any
\* integer) of year y: what Date.UTC(y, m0, 1) denotes.
MonthStartDays(y, m0) ==
    LET yy  == y + (m0 \div 12)
        m   == (m0 % 12) + 1
        ya  == IF m <= 2 THEN yy - 1 ELSE yy
        era == ya \div 400
        yoe == ya - era * 400
        mp  == IF m > 2 THEN m - 3 ELSE m + 9
        doy == (153 * mp + 2) \div 5
        doe == yoe * 365 + (yoe \div 4) - (yoe \div 100) + doy
    IN  era * 146097 + doe - 719468

\* Date.UTC(year, monthIndex, day): an overflowing (or zero) day rolls into
\* the neighbouring month.
DateUTC(y, m0, d) == MonthStartDays(y, m0) + d - 1

getUTCCivil(days) ==
    LET z   == days + 719468
        era == z \div 146097
        doe == z - era * 146097
        yoe == (doe - (doe \div 1460) + (doe \div 36524) - (doe \div 146096)) \div 365
        doy == doe - (365 * yoe + (yoe \div 4) - (yoe \div 100))
        mp  == (5 * doy + 2) \div 153
        d   == doy - ((153 * mp + 2) \div 5) + 1
        m   == IF mp < 10 THEN mp + 3 ELSE mp - 9
        y   == yoe + era * 400 + (IF m <= 2 THEN 1 ELSE 0)
    IN  [year |-> y, month |-> m, day |-> d]

parseIsoToDate(iso) == DateUTC(Year(iso), Month(iso) - 1, Day(iso))

formatDateToIso(days) ==
    LET c == getUTCCivil(days) IN MkIso(c.year, c.month, c.day)

compareIsoDates(a, b) == IF a = b THEN 0 ELSE IF a < b THEN -1 ELSE 1

\* baseline.ts addMonths: setUTCMonth keeps the day-of-month and lets the
\* Date normalise it.
addMonths(base, offset) ==
    LET d  == DateUTC(Year(base), Month(base) - 1, Day(base))
        c  == getUTCCivil(d)
        d2 == DateUTC(c.year, (c.month - 1) + offset, c.day)
    IN  formatDateToIso(d2)

clampDay(year, month, day) ==
    LET base == DateUTC(year, month - 1, day)
    IN  IF getUTCCivil(base).month - 1 # month - 1
        THEN formatDateToIso(DateUTC(year, month, 0))
        ELSE formatDateToIso(base)

(***************************************************************************)
(* Money.                                                                  *)
(***************************************************************************)
\* In IEEE double arithmetic Math.pow(1 + r, n) - 1 evaluates to
\* Math.pow(1 + r, n) itself once the power is 2^54 or more.  The model has
\* this for the monthly rate r = 1, where the power is 2^n exactly and every
\* other operation of the engine on whole amounts is exact as well.
PowerAbsorbsOne(t) == t.rateNum = t.rateDen /\ t.termMonths >= 54

UnitsPerCent(t) ==
    IF t.termMonths <= 0 THEN 1
    ELSE IF t.rateNum = 0 THEN t.termMonths
    ELSE IF PowerAbsorbsOne(t) THEN 1
    ELSE Pow(t.rateDen, t.termMonths + 1)
           * (Pow(t.rateNum + t.rateDen, t.termMonths) - Pow(t.rateDen, t.termMonths))

\* An input amount (cents) in units.
Money(t, cents) == cents * UnitsPerCent(t)

\* x > c / q cents, for an integer number of units x.
GtCents(t, x, c, q) == x > ((c * UnitsPerCent(t)) \div q)

\* remaining > epsilon, epsilon = 1e-6 (1 / 10000 of a cent).
GtEpsilon(t, x) == GtCents(t, x, 1, 10000)

\* remaining > 0.01 (one cent).
GtOneCent(t, x) == GtCents(t, x, 1, 1)

\* |a - b| <= 1e-5 (1 / 1000 of a cent).
Within1e5(t, a, b) ==
    LET diff == IF a >= b THEN a - b ELSE b - a
    IN  diff <= (UnitsPerCent(t) \div 1000)

monthlyInterest(t, remaining) ==
    IF t.rateNum > 0 THEN (remaining * t.rateNum) \div t.rateDen ELSE 0

\* schedule.reduce((sum, e) => sum + e.interest, 0) over the first n rows.
RECURSIVE SumInterestTo(_, _)
SumInterestTo(schedule, n) ==
    IF n <= 0 THEN 0 ELSE SumInterestTo(schedule, n - 1) + schedule[n].interest

SumInterest(schedule) == SumInterestTo(schedule, Len(schedule))

(***************************************************************************)
(* baseline.ts                                                             *)
(***************************************************************************)
\* Mutant: the annuity formula dropped, the principal spread evenly.
computeMonthlyPaymentEvenSplit(t) ==
    IF t.principal <= 0 THEN Throw("principal must be positive")
    ELSE IF t.termMonths <= 0 THEN Throw("termMonths must be positive")
    ELSE [ok |-> TRUE, value |-> Money(t, t.principal) \div t.termMonths]

\* Mutant: a principal of 0 is let through.
computeMonthlyPaymentAcceptingZero(t) ==
    IF t.principal < 0 THEN Throw("principal must be positive")
    ELSE IF t.termMonths <= 0 THEN Throw("termMonths must be positive")
    ELSE [ok |-> TRUE, value |-> Money(t, t.principal) \div t.termMonths]

computeMonthlyPayment(t) ==
    IF t.principal <= 0 THEN Throw("principal must be positive")
    ELSE IF t.termMonths <= 0 THEN Throw("termMonths must be positive")
    ELSE IF t.rateNum = 0
         THEN [ok |-> TRUE, value |-> Money(t, t.principal) \div t.termMonths]
    ELSE IF PowerAbsorbsOne(t)
         THEN [ok |-> TRUE, value |-> (Money(t, t.principal) * t.rateNum) \div t.rateDen]
         ELSE LET n   == t.termMonths
                  den == t.rateDen * (Pow(t.rateNum + t.rateDen, n) - Pow(t.rateDen, n))
              IN  [ok |-> TRUE,
                   value |-> (Money(t, t.principal) \div den)
                               * t.rateNum * Pow(t.rateNum + t.rateDen, n)]

\* One period of the baseline: the row pushed for `date`.
BaselineEntry(t, payment, date, remaining) ==
    LET interest  == monthlyInterest(t, remaining)
        principal == payment - interest
    IN  [date |-> date, payment |-> payment, interest |-> interest,
         principal |-> principal, remaining |-> Max(0, remaining - principal)]

RECURSIVE BaselineLoop(_, _, _, _, _)
BaselineLoop(t, payment, i, remaining, schedule) ==
    IF i < t.termMonths /\ GtEpsilon(t, remaining)
    THEN Bind(BaselineEntry(t, payment, addMonths(t.startDate, i), remaining),
              LAMBDA entry : BaselineLoop(t, payment, i + 1, entry.remaining,
                                          Append(schedule, entry)))
    ELSE schedule

computeBaselineMortgage(t) ==
    Bind(computeMonthlyPayment(t), LAMBDA p :
        IF ~p.ok THEN p
        ELSE Bind(BaselineLoop(t, p.value, 0, Money(t, t.principal), <<>>),
                  LAMBDA schedule :
                      [ok |-> TRUE,
                       schedule |-> schedule,
                       totalInterest |-> SumInterest(schedule),
                       payoffDate |-> IF schedule = <<>> THEN t.startDate
                                      ELSE schedule[Len(schedule)].date]))

(***************************************************************************)
(* history.ts                                                              *)
(***************************************************************************)
\* Mutant: every entry is put in front, whatever its date.
InsertByDateInFront(sorted, p) == <<p>> \o sorted

\* [...prepayments].sort by date: a stable sort of a copy.  p goes behind
\* the entries of `sorted` dated on or before it.
InsertByDate(sorted, p) ==
    LET k == Cardinality({i \in 1..Len(sorted) : sorted[i].date <= p.date})
    IN  SubSeq(sorted, 1, k) \o <<p>> \o SubSeq(sorted, k + 1, Len(sorted))

\* The first n entries, sorted.
RECURSIVE SortByDate(_, _)
SortByDate(prepayments, n) ==
    IF n <= 0 THEN <<>>
    ELSE Bind(SortByDate(prepayments, n - 1),
              LAMBDA sorted : InsertByDate(sorted, prepayments[n]))

\* Mutant: the log used in the caller's order.
sortedPrepaymentsUnsorted(prepayments) == prepayments

sortedPrepayments(prepayments) == SortByDate(prepayments, Len(prepayments))

\* The cursor loop of one period: the index after consuming every entry
\* dated on or before `date`.
RECURSIVE AdvancePrepayIndex(_, _, _)
AdvancePrepayIndex(sorted, prepayIndex, date) ==
    IF prepayIndex < Len(sorted) /\ sorted[prepayIndex + 1].date <= date
    THEN AdvancePrepayIndex(sorted, prepayIndex + 1, date)
    ELSE prepayIndex

\* extra: the amounts of the entries the cursor passed, from..to.
RECURSIVE SumAmounts(_, _, _, _)
SumAmounts(t, sorted, from, to) ==
    IF from >= to THEN 0
    ELSE SumAmounts(t, sorted, from, to - 1) + Money(t, sorted[to].amount)

\* Mutant: the extra is recorded in the payment but not taken off the
\* balance.
HistoryEntryExtraNotApplied(t, payment, date, remaining, extra) ==
    LET interest  == monthlyInterest(t, remaining)
        principal == payment - interest
    IN  [date |-> date, payment |-> payment + extra, interest |-> interest,
         principal |-> principal, remaining |-> Max(0, remaining - principal)]

\* One period of the replay: the row pushed for `date`.
HistoryEntry(t, payment, date, remaining, extra) ==
    LET interest   == monthlyInterest(t, remaining)
        principal0 == payment - interest
        capped     == principal0 + extra > remaining
        totalPrincipal == IF capped THEN remaining ELSE principal0 + extra
        principal  == IF capped THEN Max(0, totalPrincipal - extra) ELSE principal0
    IN  [date |-> date, payment |-> payment + extra, interest |-> interest,
         principal |-> principal, remaining |-> Max(0, remaining - totalPrincipal)]

RECURSIVE HistoryLoop(_, _, _, _, _, _, _)
HistoryLoop(t, payment, sorted, i, prepayIndex, remaining, schedule) ==
    IF i < t.termMonths /\ GtEpsilon(t, remaining)
    THEN IF payment - monthlyInterest(t, remaining) < 0
         THEN Throw("Monthly payment too low to amortize the loan.")
         ELSE Bind(AdvancePrepayIndex(sorted, prepayIndex, addMonths(t.startDate, i)),
                   LAMBDA next :
              Bind(HistoryEntry(t, payment, addMonths(t.startDate, i), remaining,
                                SumAmounts(t, sorted, prepayIndex, next)),
                   LAMBDA entry :
                       HistoryLoop(t, payment, sorted, i + 1, next, entry.remaining,
                                   Append(schedule, entry))))
    ELSE [ok |-> TRUE, schedule |-> schedule]

computeMortgageWithPrepayments(t, prepayments) ==
    Bind(computeMonthlyPayment(t), LAMBDA p :
        IF ~p.ok THEN p
        ELSE Bind(sortedPrepayments(prepayments), LAMBDA sorted :
             Bind(HistoryLoop(t, p.value, sorted, 0, 0, Money(t, t.principal), <<>>),
                  LAMBDA loop :
                      IF ~loop.ok THEN loop
                      ELSE [ok |-> TRUE,
                            schedule |-> loop.schedule,
                            totalInterest |-> SumInterest(loop.schedule),
                            payoffDate |-> IF loop.schedule = <<>> THEN t.startDate
                                           ELSE loop.schedule[Len(loop.schedule)].date])))

(***************************************************************************)
(* comparison.ts                                                           *)
(***************************************************************************)
compareBaselineWithPrepayments(t, prepayments) ==
    Bind(computeBaselineMortgage(t), LAMBDA baseline :
    Bind(computeMortgageWithPrepayments(t, prepayments), LAMBDA actual :
        IF ~baseline.ok THEN baseline
        ELSE IF ~actual.ok THEN actual
        ELSE [ok |-> TRUE,
              baseline |-> baseline,
              actual |-> actual,
              interestSaved |-> baseline.totalInterest - actual.totalInterest,
              monthsSaved |-> Len(baseline.schedule) - Len(actual.schedule)]))

(***************************************************************************)
(* scenarios.ts: slicing and pattern expansion.                            *)
(*                                                                         *)
(* A ScenarioPattern is a record with the fields of all four kinds; an     *)
(* optional field that is absent (undefined) holds None.                   *)
(***************************************************************************)
RECURSIVE LastIndexUpTo(_, _, _, _)
LastIndexUpTo(schedule, date, i, lastIndex) ==
    IF i > Len(schedule) THEN lastIndex
    ELSE IF compareIsoDates(schedule[i].date, date) <= 0
         THEN LastIndexUpTo(schedule, date, i + 1, i)
         ELSE lastIndex

\* Mutant: the pivot is asOfDate itself, not the date of a schedule row.
sliceScheduleUpToKeepingAsOf(schedule, date) ==
    IF Len(schedule) = 0 THEN Throw("Schedule is empty")
    ELSE Bind(LastIndexUpTo(schedule, date, 1, 0), LAMBDA lastIndex :
             IF lastIndex = 0
             THEN [ok |-> TRUE, slice |-> <<>>, lastIndex |-> 0, effectiveAsOf |-> date]
             ELSE [ok |-> TRUE, slice |-> SubSeq(schedule, 1, lastIndex),
                   lastIndex |-> lastIndex, effectiveAsOf |-> date])

\* lastIndex is 1-based here; 0 stands for the source's -1.
sliceScheduleUpTo(schedule, date) ==
    IF Len(schedule) = 0 THEN Throw("Schedule is empty")
    ELSE Bind(LastIndexUpTo(schedule, date, 1, 0), LAMBDA lastIndex :
             IF lastIndex = 0
             THEN [ok |-> TRUE, slice |-> <<>>, lastIndex |-> 0,
                   effectiveAsOf |-> schedule[1].date]
             ELSE [ok |-> TRUE, slice |-> SubSeq(schedule, 1, lastIndex),
                   lastIndex |-> lastIndex,
                   effectiveAsOf |-> schedule[lastIndex].date])

\* extraByDate.get(date) ?? 0
MapGet(extraByDate, date) ==
    IF date \in DOMAIN extraByDate THEN extraByDate[date] ELSE 0

MapSet(extraByDate, date, value) ==
    [d \in (DOMAIN extraByDate) \cup {date} |->
        IF d = date THEN value ELSE extraByDate[d]]

EmptyMap == [d \in {} |-> 0]

\* Mutant: no check against the payoff date.
addExtraPastPayoff(extraByDate, t, asOf, payoffDate, date, amount) ==
    IF amount <= 0 THEN extraByDate
    ELSE IF compareIsoDates(date, asOf) <= 0 THEN extraByDate
    ELSE MapSet(extraByDate, date, MapGet(extraByDate, date) + Money(t, amount))

\* Mutant: a second extra on a date replaces the first instead of adding
\* to it.
addExtraOverwriting(extraByDate, t, asOf, payoffDate, date, amount) ==
    IF amount <= 0 THEN extraByDate
    ELSE IF compareIsoDates(date, asOf) <= 0 THEN extraByDate
    ELSE IF compareIsoDates(date, payoffDate) > 0 THEN extraByDate
    ELSE MapSet(extraByDate, date, Money(t, amount))

addExtra(extraByDate, t, asOf, payoffDate, date, amount) ==
    IF amount <= 0 THEN extraByDate
    ELSE IF compareIsoDates(date, asOf) <= 0 THEN extraByDate
    ELSE IF compareIsoDates(date, payoffDate) > 0 THEN extraByDate
    ELSE MapSet(extraByDate, date, MapGet(extraByDate, date) + Money(t, amount))

\* Mutant: the specific day is ignored.
MonthlyTargetDateAlwaysDueDate(t, entry, p) == entry.date

\* The target date of a monthly pattern in the month of a baseline entry.
MonthlyTargetDate(t, entry, p) ==
    IF p.dayOfMonthStrategy = "same-as-due-date" THEN entry.date
    ELSE clampDay(Year(entry.date), Month(entry.date),
                  IF p.specificDayOfMonth # None THEN p.specificDayOfMonth
                  ELSE Day(t.startDate))

RECURSIVE MonthlyLoop(_, _, _, _, _, _, _, _)
MonthlyLoop(extraByDate, t, asOf, payoffDate, baselineSchedule, k, start, p) ==
    IF k > Len(baselineSchedule) THEN extraByDate
    ELSE IF compareIsoDates(baselineSchedule[k].date, start) <= 0
         THEN MonthlyLoop(extraByDate, t, asOf, payoffDate, baselineSchedule, k + 1, start, p)
    ELSE IF compareIsoDates(baselineSchedule[k].date, payoffDate) > 0 THEN extraByDate
    ELSE IF p.untilDate # None
            /\ compareIsoDates(MonthlyTargetDate(t, baselineSchedule[k], p), p.untilDate) > 0
         THEN MonthlyLoop(extraByDate, t, asOf, payoffDate, baselineSchedule, k + 1, start, p)
    ELSE Bind(addExtra(extraByDate, t, asOf, payoffDate,
                       MonthlyTargetDate(t, baselineSchedule[k], p), p.amount),
              LAMBDA m : MonthlyLoop(m, t, asOf, payoffDate, baselineSchedule, k + 1,
                                     start, p))

RECURSIVE YearlyLoop(_, _, _, _, _, _, _)
YearlyLoop(extraByDate, t, asOf, payoffDate, year, lastYear, p) ==
    IF year > lastYear THEN extraByDate
    ELSE IF compareIsoDates(clampDay(year, p.month, p.day), asOf) <= 0
         THEN YearlyLoop(extraByDate, t, asOf, payoffDate, year + 1, lastYear, p)
    ELSE IF compareIsoDates(clampDay(year, p.month, p.day), payoffDate) > 0
         THEN extraByDate
    ELSE Bind(addExtra(extraByDate, t, asOf, payoffDate,
                       clampDay(year, p.month, p.day), p.amount),
              LAMBDA m : YearlyLoop(m, t, asOf, payoffDate, year + 1, lastYear, p))

\* Mutant: the start boundary is not looked at.
RECURSIVE BiweeklyLoopIgnoringStart(_, _, _, _, _, _, _, _)
BiweeklyLoopIgnoringStart(extraByDate, t, asOf, payoffDate, current, limit, startBoundary, p) ==
    IF current > limit THEN extraByDate
    ELSE Bind(IF compareIsoDates(formatDateToIso(current), asOf) > 0
              THEN addExtra(extraByDate, t, asOf, payoffDate,
                            formatDateToIso(current), p.amount)
              ELSE extraByDate,
              LAMBDA m : BiweeklyLoopIgnoringStart(m, t, asOf, payoffDate, current + 14,
                                                   limit, startBoundary, p))

RECURSIVE BiweeklyLoop(_, _, _, _, _, _, _, _)
BiweeklyLoop(extraByDate, t, asOf, payoffDate, current, limit, startBoundary, p) ==
    IF current > limit THEN extraByDate
    ELSE Bind(IF current >= startBoundary
                 /\ compareIsoDates(formatDateToIso(current), asOf) > 0
              THEN addExtra(extraByDate, t, asOf, payoffDate,
                            formatDateToIso(current), p.amount)
              ELSE extraByDate,
              LAMBDA m : BiweeklyLoop(m, t, asOf, payoffDate, current + 14, limit,
                                      startBoundary, p))

ExpandPattern(extraByDate, baseline, t, asOf, p) ==
    LET payoffDate == baseline.payoffDate
    IN  IF p.amount <= 0 THEN extraByDate
        ELSE CASE p.kind = "oneTime" ->
                    addExtra(extraByDate, t, asOf, payoffDate, p.date, p.amount)
               [] p.kind = "monthly" ->
                    LET start == IF p.startDate # None /\ compareIsoDates(p.startDate, asOf) > 0
                                 THEN p.startDate ELSE asOf
                    IN  MonthlyLoop(extraByDate, t, asOf, payoffDate, baseline.schedule,
                                    1, start, p)
               [] p.kind = "yearly" ->
                    LET firstYear == Max(p.firstYear, Year(asOf))
                        lastYear  == IF p.lastYear # None THEN p.lastYear
                                     ELSE Year(payoffDate) + 1
                    IN  YearlyLoop(extraByDate, t, asOf, payoffDate, firstYear, lastYear, p)
               [] p.kind = "biweekly" ->
                    LET anchor == parseIsoToDate(p.anchorDate)
                        limit  == parseIsoToDate(
                                    IF p.untilDate # None
                                       /\ compareIsoDates(p.untilDate, payoffDate) < 0
                                    THEN p.untilDate ELSE payoffDate)
                        startBoundary ==
                            IF p.startDate # None /\ compareIsoDates(p.startDate, asOf) > 0
                            THEN parseIsoToDate(p.startDate) ELSE parseIsoToDate(asOf)
                    IN  BiweeklyLoop(extraByDate, t, asOf, payoffDate, anchor, limit,
                                     startBoundary, p)
               [] OTHER -> extraByDate

RECURSIVE ExpandPatterns(_, _, _, _, _, _)
ExpandPatterns(extraByDate, baseline, t, asOf, patterns, k) ==
    IF k > Len(patterns) THEN extraByDate
    ELSE Bind(ExpandPattern(extraByDate, baseline, t, asOf, patterns[k]),
              LAMBDA m : ExpandPatterns(m, baseline, t, asOf, patterns, k + 1))

buildExtraByDateMap(baseline, t, asOf, patterns) ==
    ExpandPatterns(EmptyMap, baseline, t, asOf, patterns, 1)

(***************************************************************************)
(* scenarios.ts: future simulation and the public API.                     *)
(***************************************************************************)
\* One step of the simulation: the row pushed for `date` (principal > 0).
FutureEntry(t, monthlyPayment, date, remaining, extra) ==
    LET interest  == monthlyInterest(t, remaining)
        principal == monthlyPayment - interest
        totalPrincipal == IF principal + extra > remaining
                          THEN remaining ELSE principal + extra
    IN  [date |-> date, payment |-> interest + totalPrincipal, interest |-> interest,
         principal |-> totalPrincipal, remaining |-> Max(0, remaining - totalPrincipal)]

RECURSIVE FutureLoop(_, _, _, _, _, _, _, _)
FutureLoop(t, monthlyPayment, effectiveAsOf, extraByDate, step, remaining, futureSchedule, totalInterestFuture) ==
    IF GtOneCent(t, remaining) /\ step <= t.termMonths + 600
    THEN IF monthlyPayment - monthlyInterest(t, remaining) <= 0
         THEN Throw("Monthly payment is too small to amortize the loan.")
         ELSE Bind(FutureEntry(t, monthlyPayment, addMonths(effectiveAsOf, step), remaining,
                               MapGet(extraByDate, addMonths(effectiveAsOf, step))),
                   LAMBDA entry :
                       IF ~GtOneCent(t, entry.remaining)
                       THEN [ok |-> TRUE,
                             futureSchedule |-> Append(futureSchedule, entry),
                             totalInterestFuture |-> totalInterestFuture + entry.interest]
                       ELSE FutureLoop(t, monthlyPayment, effectiveAsOf, extraByDate,
                                       step + 1, entry.remaining,
                                       Append(futureSchedule, entry),
                                       totalInterestFuture + entry.interest))
    ELSE IF step > t.termMonths + 600 /\ GtOneCent(t, remaining)
         THEN Throw("Future simulation did not converge.")
         ELSE [ok |-> TRUE, futureSchedule |-> futureSchedule,
               totalInterestFuture |-> totalInterestFuture]

\* Mutant: the future is simulated with half the contractual payment.
simulateFutureWithHalfPayment(t, remainingAtAsOf, effectiveAsOf, extraByDate) ==
    Bind(computeMonthlyPayment(t), LAMBDA p :
        IF ~p.ok THEN p
        ELSE FutureLoop(t, p.value \div 2, effectiveAsOf, extraByDate, 1, remainingAtAsOf,
                        <<>>, 0))

simulateFutureFromAsOf(t, remainingAtAsOf, effectiveAsOf, extraByDate) ==
    Bind(computeMonthlyPayment(t), LAMBDA p :
        IF ~p.ok THEN p
        ELSE FutureLoop(t, p.value, effectiveAsOf, extraByDate, 1, remainingAtAsOf,
                        <<>>, 0))

\* Mutant: the scenario restarts from the original principal.
ScenarioFutureFromPrincipal(t, asOf, baseline, remainingAtAsOf, effectiveAsOf, patterns) ==
    Bind(buildExtraByDateMap(baseline, t, asOf, patterns), LAMBDA extraByDate :
        simulateFutureFromAsOf(t, Money(t, t.principal), effectiveAsOf, extraByDate))

\* Mutant: the scenario is simulated from asOfDate itself, not from the
\* effective as-of date of the slice.
ScenarioFutureFromRawAsOf(t, asOf, baseline, remainingAtAsOf, effectiveAsOf, patterns) ==
    Bind(buildExtraByDateMap(baseline, t, asOf, patterns), LAMBDA extraByDate :
        simulateFutureFromAsOf(t, remainingAtAsOf, asOf, extraByDate))

\* The future of one scenario: its extra map, then the simulation.
ScenarioFuture(t, asOf, baseline, remainingAtAsOf, effectiveAsOf, patterns) ==
    Bind(buildExtraByDateMap(baseline, t, asOf, patterns), LAMBDA extraByDate :
        simulateFutureFromAsOf(t, remainingAtAsOf, effectiveAsOf, extraByDate))

\* Mutant: the scenario schedule is the simulated future alone.
ScenarioSummaryFutureOnly(t, asOf, baseline, pastSchedule, interestSoFar, remainingAtAsOf, effectiveAsOf, actualTotalInterest, actualLen, config) ==
    Bind(ScenarioFuture(t, asOf, baseline, remainingAtAsOf, effectiveAsOf, config.patterns),
         LAMBDA future :
        IF ~future.ok THEN future
        ELSE LET scenarioSchedule == future.futureSchedule
                 scenarioTotalInterest == interestSoFar + future.totalInterestFuture
                 scenarioMonths == Len(future.futureSchedule)
             IN  [ok |-> TRUE,
                  scenarioId |-> config.id,
                  scenarioName |-> config.name,
                  schedule |-> scenarioSchedule,
                  totalInterest |-> scenarioTotalInterest,
                  payoffDate |-> IF scenarioMonths > 0
                                 THEN scenarioSchedule[scenarioMonths].date
                                 ELSE baseline.payoffDate,
                  interestSavedVsBaseline |-> baseline.totalInterest - scenarioTotalInterest,
                  monthsSavedVsBaseline |-> Len(baseline.schedule) - scenarioMonths,
                  interestSavedVsActual |-> actualTotalInterest - scenarioTotalInterest,
                  monthsSavedVsActual |-> actualLen - scenarioMonths])

\* The summary of one config that passed the active / non-empty filter.
\* effectiveAnnualRate (irr.ts, a floating-point bisection) is left out.
ScenarioSummary(t, asOf, baseline, pastSchedule, interestSoFar, remainingAtAsOf, effectiveAsOf, actualTotalInterest, actualLen, config) ==
    Bind(ScenarioFuture(t, asOf, baseline, remainingAtAsOf, effectiveAsOf, config.patterns),
         LAMBDA future :
        IF ~future.ok THEN future
        ELSE LET scenarioSchedule == pastSchedule \o future.futureSchedule
                 scenarioTotalInterest == interestSoFar + future.totalInterestFuture
                 scenarioMonths == Len(pastSchedule) + Len(future.futureSchedule)
             IN  [ok |-> TRUE,
                  scenarioId |-> config.id,
                  scenarioName |-> config.name,
                  schedule |-> scenarioSchedule,
                  totalInterest |-> scenarioTotalInterest,
                  payoffDate |-> IF scenarioMonths > 0
                                 THEN scenarioSchedule[scenarioMonths].date
                                 ELSE baseline.payoffDate,
                  interestSavedVsBaseline |-> baseline.totalInterest - scenarioTotalInterest,
                  monthsSavedVsBaseline |-> Len(baseline.schedule) - scenarioMonths,
                  interestSavedVsActual |-> actualTotalInterest - scenarioTotalInterest,
                  monthsSavedVsActual |-> actualLen - scenarioMonths])

\* Mutant: the active flag is not looked at.
RECURSIVE ScenarioLoopKeepingInactive(_, _, _, _, _, _, _, _, _, _, _, _)
ScenarioLoopKeepingInactive(t, asOf, baseline, pastSchedule, interestSoFar, remainingAtAsOf, effectiveAsOf, actualTotalInterest, actualLen, configs, k, summaries) ==
    IF k > Len(configs) THEN [ok |-> TRUE, scenarios |-> summaries]
    ELSE IF Len(configs[k].patterns) = 0
         THEN ScenarioLoopKeepingInactive(t, asOf, baseline, pastSchedule, interestSoFar,
                           remainingAtAsOf, effectiveAsOf, actualTotalInterest,
                           actualLen, configs, k + 1, summaries)
         ELSE Bind(ScenarioSummary(t, asOf, baseline, pastSchedule, interestSoFar,
                                   remainingAtAsOf, effectiveAsOf, actualTotalInterest,
                                   actualLen, configs[k]),
                   LAMBDA summary :
                       IF ~summary.ok THEN summary
                       ELSE ScenarioLoopKeepingInactive(t, asOf, baseline, pastSchedule,
                                interestSoFar, remainingAtAsOf, effectiveAsOf,
                                actualTotalInterest, actualLen, configs, k + 1,
                                Append(summaries, summary)))

\* The loop over scenarioConfigs; a throw inside it aborts the whole run.
RECURSIVE ScenarioLoop(_, _, _, _, _, _, _, _, _, _, _, _)
ScenarioLoop(t, asOf, baseline, pastSchedule, interestSoFar, remainingAtAsOf, effectiveAsOf, actualTotalInterest, actualLen, configs, k, summaries) ==
    IF k > Len(configs) THEN [ok |-> TRUE, scenarios |-> summaries]
    ELSE IF ~configs[k].active \/ Len(configs[k].patterns) = 0
         THEN ScenarioLoop(t, asOf, baseline, pastSchedule, interestSoFar,
                           remainingAtAsOf, effectiveAsOf, actualTotalInterest,
                           actualLen, configs, k + 1, summaries)
         ELSE Bind(ScenarioSummary(t, asOf, baseline, pastSchedule, interestSoFar,
                                   remainingAtAsOf, effectiveAsOf, actualTotalInterest,
                                   actualLen, configs[k]),
                   LAMBDA summary :
                       IF ~summary.ok THEN summary
                       ELSE ScenarioLoop(t, asOf, baseline, pastSchedule, interestSoFar,
                                remainingAtAsOf, effectiveAsOf, actualTotalInterest,
                                actualLen, configs, k + 1, Append(summaries, summary)))

\* Mutant: the balance at as-of is always the original principal.
RemainingAtAsOfIgnoringPast(t, sl) == Money(t, t.principal)

\* The balance the future simulations start from.
RemainingAtAsOf(t, sl) ==
    IF sl.lastIndex = 0 THEN Money(t, t.principal)
    ELSE sl.slice[Len(sl.slice)].remaining

\* Mutant: the actual path picks up the extras of the first config.
RunFromSliceActualWithFirstConfig(t, asOf, configs, baseline, sl) ==
    Bind(RemainingAtAsOf(t, sl), LAMBDA remainingAtAsOf :
    Bind(IF sl.lastIndex = 0 THEN 0 ELSE SumInterest(sl.slice), LAMBDA interestSoFar :
    Bind(simulateFutureFromAsOf(t, remainingAtAsOf, sl.effectiveAsOf,
             IF Len(configs) = 0 THEN EmptyMap
             ELSE buildExtraByDateMap(baseline, t, asOf, configs[1].patterns)),
         LAMBDA actualFuture :
        IF ~actualFuture.ok THEN actualFuture
        ELSE
    Bind(sl.slice \o actualFuture.futureSchedule, LAMBDA actualFullSchedule :
    Bind(interestSoFar + actualFuture.totalInterestFuture, LAMBDA actualTotalInterest :
    Bind(ScenarioLoop(t, asOf, baseline, sl.slice, interestSoFar, remainingAtAsOf,
                      sl.effectiveAsOf, actualTotalInterest, Len(actualFullSchedule),
                      configs, 1, <<>>),
         LAMBDA loop :
        IF ~loop.ok THEN loop
        ELSE [ok |-> TRUE,
              asOfDate |-> asOf,
              effectiveAsOfDate |-> sl.effectiveAsOf,
              baseline |-> baseline,
              actual |-> [schedule |-> actualFullSchedule,
                          totalInterest |-> actualTotalInterest,
                          payoffDate |-> IF Len(actualFullSchedule) > 0
                                         THEN actualFullSchedule[Len(actualFullSchedule)].date
                                         ELSE baseline.payoffDate],
              actualInterestSoFar |-> interestSoFar,
              actualMonthsSoFar |-> IF sl.lastIndex = 0 THEN 0 ELSE Len(sl.slice),
              scenarios |-> loop.scenarios]))))))

\* Steps 4 to 6 of runMortgageScenarios, after the slice.
RunFromSlice(t, asOf, configs, baseline, sl) ==
    Bind(RemainingAtAsOf(t, sl), LAMBDA remainingAtAsOf :
    Bind(IF sl.lastIndex = 0 THEN 0 ELSE SumInterest(sl.slice), LAMBDA interestSoFar :
    Bind(simulateFutureFromAsOf(t, remainingAtAsOf, sl.effectiveAsOf, EmptyMap),
         LAMBDA actualFuture :
        IF ~actualFuture.ok THEN actualFuture
        ELSE
    Bind(sl.slice \o actualFuture.futureSchedule, LAMBDA actualFullSchedule :
    Bind(interestSoFar + actualFuture.totalInterestFuture, LAMBDA actualTotalInterest :
    Bind(ScenarioLoop(t, asOf, baseline, sl.slice, interestSoFar, remainingAtAsOf,
                      sl.effectiveAsOf, actualTotalInterest, Len(actualFullSchedule),
                      configs, 1, <<>>),
         LAMBDA loop :
        IF ~loop.ok THEN loop
        ELSE [ok |-> TRUE,
              asOfDate |-> asOf,
              effectiveAsOfDate |-> sl.effectiveAsOf,
              baseline |-> baseline,
              actual |-> [schedule |-> actualFullSchedule,
                          totalInterest |-> actualTotalInterest,
                          payoffDate |-> IF Len(actualFullSchedule) > 0
                                         THEN actualFullSchedule[Len(actualFullSchedule)].date
                                         ELSE baseline.payoffDate],
              actualInterestSoFar |-> interestSoFar,
              actualMonthsSoFar |-> IF sl.lastIndex = 0 THEN 0 ELSE Len(sl.slice),
              scenarios |-> loop.scenarios]))))))

runMortgageScenarios(t, prepayments, asOf, configs) ==
    Bind(computeBaselineMortgage(t), LAMBDA baseline :
        IF ~baseline.ok THEN baseline
        ELSE
    Bind(computeMortgageWithPrepayments(t, prepayments), LAMBDA actual :
        IF ~actual.ok THEN actual
        ELSE
    Bind(sliceScheduleUpTo(actual.schedule, asOf), LAMBDA sl :
        IF ~sl.ok THEN sl
        ELSE RunFromSlice(t, asOf, configs, baseline, sl))))

(***************************************************************************)
(* Inputs.                                                                 *)
(***************************************************************************)
\* Monthly rates annualRate / 12: 0 and 1/2.
RateSet == {<<0, 1>>, <<1, 2>>}

StartDateSet == {20250115, 20250131}

PrincipalSet == {3000}

TermsSet ==
    { [principal |-> pr, rateNum |-> r[1], rateDen |-> r[2], termMonths |-> n,
       startDate |-> sd] :
         pr \in PrincipalSet, r \in RateSet, n \in 1..MaxTerm, sd \in StartDateSet }

\* Before the start date, on a payment date, between payment dates, late
\* in the term, after the last payment date.
PrepaymentDateSet == {20250101, 20250115, 20250210, 20250303, 20250320, 20250901}

PrepaymentSet ==
    { [date |-> d, amount |-> a] : d \in PrepaymentDateSet, a \in {500, 3000} }

SeqsUpTo(S, n) == UNION { [1..k -> S] : k \in 0..n }

LogSet == SeqsUpTo(PrepaymentSet, MaxLog)

\* The logs of the scenario runs.
PastLogSet ==
    { <<>>,
      << [date |-> 20250101, amount |-> 500] >>,
      << [date |-> 20250210, amount |-> 700], [date |-> 20250101, amount |-> 500] >> }

\* Before the first payment, on and between payment dates, after payoff.
AsOfDateSet == {20250110, 20250115, 20250201, 20250303, 20250315, 20250901}

NoPattern ==
    [kind |-> "oneTime", amount |-> 0, date |-> None, startDate |-> None,
     untilDate |-> None, dayOfMonthStrategy |-> "same-as-due-date",
     specificDayOfMonth |-> None, month |-> None, day |-> None,
     firstYear |-> None, lastYear |-> None, anchorDate |-> None]

OneTime(amount, date) ==
    [NoPattern EXCEPT !.kind = "oneTime", !.amount = amount, !.date = date]

Monthly(amount, startDate, untilDate, strategy, specificDay) ==
    [NoPattern EXCEPT !.kind = "monthly", !.amount = amount, !.startDate = startDate,
                      !.untilDate = untilDate, !.dayOfMonthStrategy = strategy,
                      !.specificDayOfMonth = specificDay]

Yearly(amount, month, day, firstYear, lastYear) ==
    [NoPattern EXCEPT !.kind = "yearly", !.amount = amount, !.month = month,
                      !.day = day, !.firstYear = firstYear, !.lastYear = lastYear]

Biweekly(amount, anchorDate, startDate, untilDate) ==
    [NoPattern EXCEPT !.kind = "biweekly", !.amount = amount, !.anchorDate = anchorDate,
                      !.startDate = startDate, !.untilDate = untilDate]

PatternSet ==
    { OneTime(500, 20250215), OneTime(500, 20250120), OneTime(999, 20250215),
      OneTime(0, 20250215), OneTime(-500, 20250215), OneTime(500, 20251001),
      OneTime(500, 20250315),
      Monthly(200, 20250115, None, "same-as-due-date", None),
      Monthly(200, 20250101, 20250320, "specific-day", 28),
      Yearly(400, 3, 31, 2024, None),
      Yearly(400, 2, 15, 2025, 2026),
      Biweekly(100, 20250103, None, None),
      Biweekly(100, 20250101, 20250201, 20250401) }

\* The patterns a second scenario adds to the first one's.
FurtherPatternSet ==
    { OneTime(500, 20250215), OneTime(500, 20250120), OneTime(0, 20250215),
      Monthly(200, 20250115, None, "same-as-due-date", None),
      Yearly(400, 3, 31, 2024, None) }

\* Scenario A and scenario B = A plus one further pattern.
ConfigListSet ==
    { << [id |-> "A", name |-> "scenario A", active |-> actA, patterns |-> <<p1>>],
         [id |-> "B", name |-> "scenario B", active |-> TRUE, patterns |-> <<p1, p2>>] >> :
         actA \in BOOLEAN, p1 \in PatternSet, p2 \in FurtherPatternSet }

NoResult == [ok |-> FALSE, error |-> "not called"]

(***************************************************************************)
(* The engine as a state machine: the caller holds its inputs and calls    *)
(* one function of the public API; result is what the call returned.       *)
(***************************************************************************)
CallComputeBaselineMortgage ==
    /\ pc = "idle"
    /\ pc' = "computeBaselineMortgage"
    /\ result' = computeBaselineMortgage(terms)
    /\ UNCHANGED <<terms, pastPrepayments, asOfDate, scenarioConfigs, syncVars>>

CallComputeMortgageWithPrepayments ==
    /\ pc = "idle"
    /\ pc' = "computeMortgageWithPrepayments"
    /\ result' = computeMortgageWithPrepayments(terms, pastPrepayments)
    /\ UNCHANGED <<terms, pastPrepayments, asOfDate, scenarioConfigs, syncVars>>

CallCompareBaselineWithPrepayments ==
    /\ pc = "idle"
    /\ pc' = "compareBaselineWithPrepayments"
    /\ result' = compareBaselineWithPrepayments(terms, pastPrepayments)
    /\ UNCHANGED <<terms, pastPrepayments, asOfDate, scenarioConfigs, syncVars>>

CallRunMortgageScenarios ==
    /\ pc = "idle"
    /\ pc' = "runMortgageScenarios"
    /\ result' = runMortgageScenarios(terms, pastPrepayments, asOfDate, scenarioConfigs)
    /\ UNCHANGED <<terms, pastPrepayments, asOfDate, scenarioConfigs, syncVars>>

\* The pattern expander on the pattern list of one of the configs.
CallBuildExtraByDateMap ==
    /\ pc = "idle"
    /\ \E k \in 1..Len(scenarioConfigs) :
       \E baseline \in {computeBaselineMortgage(terms)} :
          /\ baseline.ok
          /\ result' = [ok |-> TRUE,
                        patterns |-> scenarioConfigs[k].patterns,
                        baseline |-> baseline,
                        extraByDate |-> buildExtraByDateMap(baseline, terms, asOfDate,
                                                            scenarioConfigs[k].patterns)]
    /\ pc' = "buildExtraByDateMap"
    /\ UNCHANGED <<terms, pastPrepayments, asOfDate, scenarioConfigs, syncVars>>

(***************************************************************************)
(* State synchroniser and sync worker: their data.                         *)
(*                                                                         *)
(*  - kv[key] is the snapshot the worker's KV namespace stores under the   *)
(*    key, or Null.  clock is the latest timestamp the worker has issued;  *)
(*    an ISO timestamp is a positive integer and None is a null            *)
(*    prev_updated_at.                                                     *)
(*  - storage[device] is the device's localStorage: the saved app state,   *)
(*    the saved mortgage UI state and the last-sync item.                  *)
(*  - proc[device] is the device's call of syncNow: where it stands, the   *)
(*    key, the request in flight with what the worker has read for it,     *)
(*    the response, and how the call settled.  entry is the last-sync      *)
(*    item the call found; calls counts the device's calls.                *)
(***************************************************************************)
MaxClock == 3
MaxSyncs == 2

Devices == {"d1", "d2"}
Keys == {"k1", "k2"}

\* null, undefined, and an item localStorage does not hold
Null == [null |-> TRUE]

\* The state a device's user enters on it.
OwnAppState(device) == IF device = "d1" THEN "a1" ELSE "a2"
OwnMortgageUI(device) == IF device = "d1" THEN "m1" ELSE "m2"

\* A device that has been used and has never synchronised.
UnsyncedStorage(device) == [app_state |-> OwnAppState(device), mortgage_ui |-> OwnMortgageUI(device), last_sync |-> Null]

NoCall == [pc |-> "idle", key |-> "", calls |-> 0, entry |-> Null, direction |-> "", remoteState |-> Null, payload |-> Null, current |-> Null, response |-> Null, outcome |-> Null]

\* Nothing stored remotely, no call of syncNow yet.
SyncAtRest ==
    /\ kv = [key \in Keys |-> Null]
    /\ clock = 0
    /\ storage = [device \in Devices |-> UnsyncedStorage(device)]
    /\ proc = [device \in Devices |-> NoCall]

\* Calls of the history amortizer and the comparison on any log.
InitHistory ==
    /\ terms \in TermsSet
    /\ pastPrepayments \in LogSet
    /\ asOfDate = 20250115
    /\ scenarioConfigs = <<>>
    /\ pc = "idle"
    /\ result = NoResult
    /\ SyncAtRest

NextHistory ==
    \/ CallComputeBaselineMortgage
    \/ CallComputeMortgageWithPrepayments
    \/ CallCompareBaselineWithPrepayments

SpecHistory == InitHistory /\ [][NextHistory]_vars

\* Calls of the scenario runner.
Init ==
    /\ terms \in TermsSet
    /\ pastPrepayments \in PastLogSet
    /\ asOfDate \in AsOfDateSet
    /\ scenarioConfigs \in ConfigListSet
    /\ pc = "idle"
    /\ result = NoResult
    /\ SyncAtRest

Next ==
    \/ CallRunMortgageScenarios
    \/ CallBuildExtraByDateMap

Spec == Init /\ [][Next]_vars

(***************************************************************************)
(* Properties.                                                             *)
(***************************************************************************)
Ran == pc = "runMortgageScenarios" /\ result.ok

ConfigOf(id) ==
    CHOOSE c \in {scenarioConfigs[k] : k \in 1..Len(scenarioConfigs)} : c.id = id

Summaries == {result.scenarios[k] : k \in 1..Len(result.scenarios)}

HasSummary(id) == \E s \in Summaries : s.scenarioId = id

SummaryOf(id) == CHOOSE s \in Summaries : s.scenarioId = id

\* The schedules a scenario run returns.
RunSchedules == {result.actual.schedule} \cup {s.schedule : s \in Summaries}

NonIncreasing(schedule) ==
    \A i \in 1..(Len(schedule) - 1) : schedule[i + 1].remaining <= schedule[i].remaining

\* The number of rows of a schedule dated on or after d.
RowsFrom(schedule, d) == Cardinality({i \in 1..Len(schedule) : schedule[i].date >= d})

\* C1: for annualRate > 0, a scenario whose extra-by-date map holds a date
\* after asOfDate with at least two payment periods of the actual path still
\* to come has totalInterest strictly below actual.totalInterest, whether or
\* not that date is a payment date.
C1_EveryMapExtraIsApplied ==
    (Ran /\ terms.rateNum > 0) =>
        \A s \in Summaries :
            LET extraByDate == buildExtraByDateMap(result.baseline, terms, asOfDate,
                                                   ConfigOf(s.scenarioId).patterns)
            IN  (\E d \in DOMAIN extraByDate :
                     d > asOfDate /\ RowsFrom(result.actual.schedule, d) >= 2)
                => s.totalInterest < result.actual.totalInterest

\* C2: with an empty prepayment log and any asOfDate, actual.totalInterest
\* equals baseline.totalInterest within 1e-5 and actual.payoffDate equals
\* baseline.payoffDate.
C2_ActualEqualsBaselineWithoutPrepayments ==
    (Ran /\ pastPrepayments = <<>>) =>
        /\ Within1e5(terms, result.actual.totalInterest, result.baseline.totalInterest)
        /\ result.actual.payoffDate = result.baseline.payoffDate

Compared == pc = "compareBaselineWithPrepayments" /\ result.ok

\* C3 as stated: any non-empty log of positive prepayments gives a strictly
\* smaller totalInterest and no more rows than the baseline.
C3_StrictDominanceForAnyLog ==
    (Compared /\ pastPrepayments # <<>>) =>
        /\ result.actual.totalInterest < result.baseline.totalInterest
        /\ Len(result.actual.schedule) <= Len(result.baseline.schedule)
        /\ result.interestSaved > 0
        /\ result.monthsSaved >= 0

\* Some prepayment of the log is dated on or before the next-to-last payment
\* date of the baseline.
PrepaidBeforeLastPeriod ==
    /\ Len(result.baseline.schedule) >= 2
    /\ \E j \in 1..Len(pastPrepayments) :
          pastPrepayments[j].date
              <= result.baseline.schedule[Len(result.baseline.schedule) - 1].date

\* C3 amended: a non-empty log of positive prepayments never costs interest
\* or rows (interestSaved >= 0, monthsSaved >= 0); the saving is strict when
\* annualRate > 0 and some prepayment is dated on or before the next-to-last
\* baseline payment date.
C3_PrepaymentDominance ==
    (Compared /\ pastPrepayments # <<>>) =>
        /\ result.actual.totalInterest <= result.baseline.totalInterest
        /\ Len(result.actual.schedule) <= Len(result.baseline.schedule)
        /\ result.interestSaved >= 0
        /\ result.monthsSaved >= 0
        /\ (terms.rateNum > 0 /\ PrepaidBeforeLastPeriod)
              => (result.actual.totalInterest < result.baseline.totalInterest
                  /\ result.interestSaved > 0)

C3_Witness ==
    /\ Compared
    /\ pastPrepayments # <<>>
    /\ terms.rateNum > 0
    /\ PrepaidBeforeLastPeriod
    /\ result.interestSaved > 0
    /\ result.monthsSaved > 0

\* The schedules the call that just returned produced.
ProducedSchedules ==
    IF ~result.ok THEN {}
    ELSE IF pc \in {"computeBaselineMortgage", "computeMortgageWithPrepayments"}
         THEN {result.schedule}
    ELSE IF pc = "compareBaselineWithPrepayments"
         THEN {result.baseline.schedule, result.actual.schedule}
    ELSE IF pc = "runMortgageScenarios"
         THEN RunSchedules \cup {result.baseline.schedule}
    ELSE {}

\* C4: in every row of every schedule interest + principal = payment, except
\* possibly in a final row whose extra payment was capped at the balance.
C4_InterestPlusPrincipalIsPayment ==
    \A schedule \in ProducedSchedules :
        \A i \in 1..Len(schedule) :
            \/ schedule[i].interest + schedule[i].principal = schedule[i].payment
            \/ /\ i = Len(schedule)
               /\ schedule[i].remaining = 0
               /\ schedule[i].payment > computeMonthlyPayment(terms).value

LastRemaining(schedule) == schedule[Len(schedule)].remaining

Replayed == pc = "computeMortgageWithPrepayments" /\ result.ok

\* The first period of the schedule dated on or after d; 0 when there is
\* none.
RECURSIVE FirstPeriodFrom(_, _, _)
FirstPeriodFrom(schedule, d, i) ==
    IF i > Len(schedule) THEN 0
    ELSE IF schedule[i].date >= d THEN i
    ELSE FirstPeriodFrom(schedule, d, i + 1)

\* The amounts of the log entries whose first period on or after their date
\* is period i.
RECURSIVE AmountDueIn(_, _, _, _, _)
AmountDueIn(t, log, j, schedule, i) ==
    IF j > Len(log) THEN 0
    ELSE (IF FirstPeriodFrom(schedule, log[j].date, 1) = i
          THEN Money(t, log[j].amount) ELSE 0)
         + AmountDueIn(t, log, j + 1, schedule, i)

\* The extra principal a row of the replayed schedule carries.
ExtraOfRow(i) == result.schedule[i].payment - computeMonthlyPayment(terms).value

\* C7 as stated: every prepayment of the log, whatever its date, is applied
\* exactly once, in the first period dated on or after the prepayment.
C7_EveryPrepaymentAppliedOnce ==
    Replayed =>
        /\ \A j \in 1..Len(pastPrepayments) :
              FirstPeriodFrom(result.schedule, pastPrepayments[j].date, 1) # 0
        /\ \A i \in 1..Len(result.schedule) :
              ExtraOfRow(i) = AmountDueIn(terms, pastPrepayments, 1, result.schedule, i)

\* C7 amended: every prepayment dated on or before the payoff date of the
\* returned schedule is applied exactly once, in the first period dated on or
\* after the prepayment; a prepayment dated after that payoff date is not
\* applied at all.
C7_PrepaymentAppliedOnceBeforePayoff ==
    Replayed =>
        \A i \in 1..Len(result.schedule) :
            ExtraOfRow(i) = AmountDueIn(terms, pastPrepayments, 1, result.schedule, i)

\* A log given out of date order, one entry before the start date and one
\* between two payment dates, applied in two different periods.
C7_Witness ==
    /\ Replayed
    /\ Len(pastPrepayments) = 2
    /\ pastPrepayments[1].date > pastPrepayments[2].date
    /\ pastPrepayments[2].date < terms.startDate
    /\ FirstPeriodFrom(result.schedule, pastPrepayments[2].date, 1) = 1
    /\ FirstPeriodFrom(result.schedule, pastPrepayments[1].date, 1) = 3
    /\ result.schedule[3].date > pastPrepayments[1].date
    /\ ExtraOfRow(1) > 0 /\ ExtraOfRow(2) = 0 /\ ExtraOfRow(3) > 0

Expanded == pc = "buildExtraByDateMap" /\ result.ok

RECURSIVE PositivePatterns(_)
PositivePatterns(patterns) ==
    IF patterns = <<>> THEN <<>>
    ELSE (IF Head(patterns).amount > 0 THEN <<Head(patterns)>> ELSE <<>>)
         \o PositivePatterns(Tail(patterns))

\* C8: every key of the extra-by-date map is strictly after asOfDate and on
\* or before baseline.payoffDate, every value is strictly positive, and
\* patterns with amount <= 0 contribute nothing.
C8_ExtraMapWithinBounds ==
    Expanded =>
        /\ \A d \in DOMAIN result.extraByDate :
              /\ d > asOfDate
              /\ d <= result.baseline.payoffDate
              /\ result.extraByDate[d] > 0
        /\ result.extraByDate
              = buildExtraByDateMap(result.baseline, terms, asOfDate,
                                    PositivePatterns(result.patterns))

\* A list with a non-positive pattern and a positive one that lands in the
\* map.
C8_Witness ==
    /\ Expanded
    /\ \E k \in 1..Len(result.patterns) : result.patterns[k].amount <= 0
    /\ \E k \in 1..Len(result.patterns) : result.patterns[k].amount > 0
    /\ Cardinality(DOMAIN result.extraByDate) >= 2

\* C9: no scenario does worse than the actual path without future extras:
\* totalInterest <= actual.totalInterest, interestSavedVsActual >= 0 and
\* monthsSavedVsActual >= 0.
C9_ScenarioNeverWorseThanActual ==
    Ran =>
        \A s \in Summaries :
            /\ s.totalInterest <= result.actual.totalInterest
            /\ s.interestSavedVsActual >= 0
            /\ s.monthsSavedVsActual >= 0

C9_Witness ==
    /\ Ran
    /\ pastPrepayments # <<>>
    /\ result.actualMonthsSoFar >= 1
    /\ \E s \in Summaries : s.interestSavedVsActual > 0 /\ s.monthsSavedVsActual > 0
    /\ \E s \in Summaries : s.interestSavedVsActual = 0

\* Scenario B's patterns are scenario A's plus further positive patterns.
BExtendsA ==
    LET a == ConfigOf("A").patterns
        b == ConfigOf("B").patterns
    IN  /\ Len(b) > Len(a)
        /\ SubSeq(b, 1, Len(a)) = a
        /\ \A k \in (Len(a) + 1)..Len(b) : b[k].amount > 0

\* C10: when scenario B's pattern list is scenario A's plus further
\* positive-amount patterns, B.totalInterest <= A.totalInterest and
\* B.interestSavedVsBaseline >= A.interestSavedVsBaseline.
C10_ScenarioMonotonicity ==
    (Ran /\ HasSummary("A") /\ HasSummary("B") /\ BExtendsA) =>
        /\ SummaryOf("B").totalInterest <= SummaryOf("A").totalInterest
        /\ SummaryOf("B").interestSavedVsBaseline >= SummaryOf("A").interestSavedVsBaseline

\* Both scenarios save interest, B strictly more than A, and both put an
\* extra on the same date.
C10_Witness ==
    /\ Ran /\ HasSummary("A") /\ HasSummary("B") /\ BExtendsA
    /\ SummaryOf("A").interestSavedVsActual > 0
    /\ SummaryOf("B").totalInterest < SummaryOf("A").totalInterest
    /\ ConfigOf("A").patterns[1].kind = "oneTime"
    /\ ConfigOf("B").patterns[2].kind = "monthly"
    /\ ConfigOf("A").patterns[1].date
          \in DOMAIN buildExtraByDateMap(result.baseline, terms, asOfDate,
                                         <<ConfigOf("B").patterns[2]>>)

(***************************************************************************)
(* Scenario runs on one scenario at a time, over due days 15, 30 and 31    *)
(* and pattern lists of every kind.                                        *)
(***************************************************************************)
DueDateSet == {20250115, 20250130, 20250131}

DueDayTermsSet ==
    { [principal |-> pr, rateNum |-> r[1], rateDen |-> r[2], termMonths |-> n,
       startDate |-> sd] :
         pr \in PrincipalSet, r \in RateSet, n \in 1..MaxTerm, sd \in DueDateSet }

\* Lists whose patterns all have amount 0, or all start after every payoff.
NoOpPatternLists ==
    { << OneTime(0, 20250215) >>,
      << Monthly(0, 20250101, None, "same-as-due-date", None) >>,
      << OneTime(0, 20250215), Biweekly(0, 20250103, None, None) >>,
      << OneTime(500, 20251001) >>,
      << OneTime(500, 20250415) >>,
      << Monthly(200, 20251001, None, "same-as-due-date", None) >>,
      << Yearly(400, 3, 31, 2026, None) >>,
      << Biweekly(100, 20251001, None, None) >>,
      << Biweekly(100, 20250103, 20251001, None), OneTime(500, 20251001) >> }

MonthlyPatternLists(asOf) ==
    { << Monthly(200, asOf, None, "same-as-due-date", None) >>,
      << Monthly(200, 20250215, 20250315, "same-as-due-date", None) >>,
      << Monthly(200, 20250302, 20250330, "same-as-due-date", None) >>,
      << Monthly(200, 20250303, 20250331, "same-as-due-date", None) >>,
      << Monthly(200, 20250101, 20250320, "specific-day", 28) >>,
      << Monthly(200, 20250120, None, "specific-day", 10) >>,
      << Monthly(200, 20250101, None, "specific-day", None) >>,
      << Monthly(200, 20250101, 20250312, "specific-day", 10) >>,
      << Monthly(200, 20250101, None, "specific-day", 31) >> }

BiweeklyPatternLists(asOf) ==
    { << Biweekly(100, 20250103, None, None) >>,
      << Biweekly(100, 20250101, 20250201, 20250401) >>,
      << Biweekly(100, 20241220, 20250117, 20250314) >>,
      << Biweekly(100, 20250220, asOf, None) >>,
      << Biweekly(100, 20250107, 20250204, 20250304) >> }

SingleConfigSet(asOf) ==
    { << [id |-> "A", name |-> "scenario A", active |-> TRUE, patterns |-> ps] >> :
         ps \in NoOpPatternLists \cup MonthlyPatternLists(asOf)
                  \cup BiweeklyPatternLists(asOf) }

InitPatterns ==
    /\ terms \in DueDayTermsSet
    /\ pastPrepayments \in PastLogSet
    /\ asOfDate \in AsOfDateSet
    /\ scenarioConfigs \in SingleConfigSet(asOfDate)
    /\ pc = "idle"
    /\ result = NoResult
    /\ SyncAtRest

SpecPatterns == InitPatterns /\ [][Next]_vars

\* The first date a pattern allows an extra on.
RangeStart(p) ==
    CASE p.kind = "oneTime"  -> p.date
      [] p.kind = "monthly"  -> p.startDate
      [] p.kind = "yearly"   -> clampDay(p.firstYear, p.month, p.day)
      [] p.kind = "biweekly" -> Max(p.anchorDate, p.startDate)

AllZeroAmount(patterns) == \A k \in 1..Len(patterns) : patterns[k].amount = 0

AllStartAfter(patterns, d) == \A k \in 1..Len(patterns) : RangeStart(patterns[k]) > d

\* C11: an active scenario whose patterns all have amount 0, or all start
\* strictly after the payoff date (of the baseline, or of the actual path),
\* has the rows of the actual path, interestSavedVsActual 0 within 1e-5 and
\* monthsSavedVsActual 0.
C11_NoOpScenarios ==
    Ran =>
        \A s \in Summaries :
            LET patterns == ConfigOf(s.scenarioId).patterns
            IN  (\/ AllZeroAmount(patterns)
                 \/ AllStartAfter(patterns, result.baseline.payoffDate)
                 \/ AllStartAfter(patterns, result.actual.payoffDate))
                => /\ s.schedule = result.actual.schedule
                   /\ Within1e5(terms, s.interestSavedVsActual, 0)
                   /\ s.monthsSavedVsActual = 0

\* A zero-amount scenario and one that starts between the actual and the
\* baseline payoff, on a run with payments still to come.
C11_Witness ==
    /\ Ran
    /\ Len(result.actual.schedule) > result.actualMonthsSoFar
    /\ \E s \in Summaries :
          LET patterns == ConfigOf(s.scenarioId).patterns
          IN  /\ s.schedule = result.actual.schedule
              /\ \/ AllZeroAmount(patterns)
                 \/ /\ AllStartAfter(patterns, result.actual.payoffDate)
                    /\ ~AllStartAfter(patterns, result.baseline.payoffDate)
                    /\ asOfDate < result.actual.payoffDate

(***************************************************************************)
(* Scenario runs on lists that mix active, inactive and empty configs.     *)
(***************************************************************************)
MaxConfigs == 3

MixedConfigSet ==
    { [id |-> "X", name |-> "monthly 2.00", active |-> TRUE,
       patterns |-> << Monthly(200, 20250115, None, "same-as-due-date", None) >>],
      [id |-> "Y", name |-> "lump sum", active |-> TRUE,
       patterns |-> << OneTime(500, 20250215), Yearly(400, 3, 31, 2024, None) >>],
      [id |-> "Z", name |-> "switched off", active |-> FALSE,
       patterns |-> << OneTime(500, 20250215) >>],
      [id |-> "E", name |-> "empty", active |-> TRUE, patterns |-> << >>] }

MixedConfigListSet == SeqsUpTo(MixedConfigSet, MaxConfigs)

InitConfigs ==
    /\ terms \in TermsSet
    /\ pastPrepayments \in PastLogSet
    /\ asOfDate \in {20250110, 20250201}
    /\ scenarioConfigs \in MixedConfigListSet
    /\ pc = "idle"
    /\ result = NoResult
    /\ SyncAtRest

NextConfigs == CallRunMortgageScenarios

SpecConfigs == InitConfigs /\ [][NextConfigs]_vars

\* A config the loop over scenarioConfigs does not skip.
Simulated(config) == config.active /\ Len(config.patterns) > 0

SimulatedConfigs == SelectSeq(scenarioConfigs, Simulated)

\* C12: result.scenarios holds one summary per config with active = true
\* and at least one pattern, in the order of the input list, with that
\* config's id and name; inactive and empty configs do not appear.
C12_OneSummaryPerSimulatedConfig ==
    Ran =>
        /\ Len(result.scenarios) = Len(SimulatedConfigs)
        /\ \A j \in 1..Len(result.scenarios) :
              /\ result.scenarios[j].scenarioId = SimulatedConfigs[j].id
              /\ result.scenarios[j].scenarioName = SimulatedConfigs[j].name
        /\ \A k \in 1..Len(scenarioConfigs) :
              ~Simulated(scenarioConfigs[k])
                  => ~HasSummary(scenarioConfigs[k].id)

\* A list with an inactive config that has a pattern, an active config
\* without patterns, and two simulated configs in the order Y, X.
C12_Witness ==
    /\ Ran
    /\ \E k \in 1..Len(scenarioConfigs) :
          ~scenarioConfigs[k].active /\ Len(scenarioConfigs[k].patterns) > 0
    /\ Len(scenarioConfigs) > Len(result.scenarios)
    /\ Len(result.scenarios) = 2
    /\ result.scenarios[1].scenarioId = "Y"
    /\ result.scenarios[2].scenarioId = "X"

Reverse(seq) == [i \in 1..Len(seq) |-> seq[Len(seq) + 1 - i]]

\* The same context run on another list of configs.
RunWith(configs) == runMortgageScenarios(terms, pastPrepayments, asOfDate, configs)

\* C13: the summary of a config is the one a run on that config alone
\* produces, the run on the reversed list produces the same summaries in
\* reversed order, and baseline and actual are those of a run without
\* configs.
C13_ScenarioIndependence ==
    Ran =>
        /\ \A j \in 1..Len(result.scenarios) :
              result.scenarios[j] = RunWith(<< SimulatedConfigs[j] >>).scenarios[1]
        /\ RunWith(Reverse(scenarioConfigs)).scenarios = Reverse(result.scenarios)
        /\ result.baseline = RunWith(<< >>).baseline
        /\ result.actual = RunWith(<< >>).actual

\* Two different configs simulated together, both saving interest, with
\* different schedules.
C13_Witness ==
    /\ Ran
    /\ Len(result.scenarios) >= 2
    /\ result.scenarios[1].scenarioId # result.scenarios[2].scenarioId
    /\ result.scenarios[1].schedule # result.scenarios[2].schedule
    /\ result.scenarios[1].interestSavedVsActual > 0
    /\ result.scenarios[2].interestSavedVsActual > 0

(***************************************************************************)
(* As-of slicing.                                                          *)
(***************************************************************************)
\* The schedule of the replay of the log, which the run slices.
HistorySchedule == computeMortgageWithPrepayments(terms, pastPrepayments).schedule

\* The rows of a schedule dated on or before d.
RowsUpTo(schedule, d) == {i \in 1..Len(schedule) : schedule[i].date <= d}

RECURSIVE InterestOver(_, _)
InterestOver(schedule, rows) ==
    IF rows = {} THEN 0
    ELSE LET i == CHOOSE x \in rows : TRUE
         IN  schedule[i].interest + InterestOver(schedule, rows \ {i})

\* The rows of `schedule` after the first n are a simulation that starts
\* from the balance `remaining` one month after `pivot`.
StartsFrom(schedule, n, remaining, pivot) ==
    IF GtOneCent(terms, remaining)
    THEN /\ Len(schedule) > n
         /\ schedule[n + 1].date = addMonths(pivot, 1)
         /\ schedule[n + 1].interest = monthlyInterest(terms, remaining)
         /\ schedule[n + 1].remaining = remaining - schedule[n + 1].principal
    ELSE Len(schedule) = n

\* C14: with no row of the replayed schedule dated on or before asOfDate,
\* actualMonthsSoFar and actualInterestSoFar are 0, effectiveAsOfDate is the
\* first scheduled date and every simulation starts from terms.principal;
\* otherwise effectiveAsOfDate is the latest scheduled date on or before
\* asOfDate, actualMonthsSoFar counts the rows up to asOfDate,
\* actualInterestSoFar sums their interest and every simulation starts from
\* the remaining of the row dated effectiveAsOfDate.
C14_AsOfSlicing ==
    Ran =>
        LET rows == RowsUpTo(HistorySchedule, asOfDate)
        IN  IF rows = {}
            THEN /\ result.actualMonthsSoFar = 0
                 /\ result.actualInterestSoFar = 0
                 /\ result.effectiveAsOfDate = HistorySchedule[1].date
                 /\ \A schedule \in RunSchedules :
                       StartsFrom(schedule, 0, Money(terms, terms.principal),
                                  result.effectiveAsOfDate)
            ELSE /\ \E i \in rows :
                       /\ HistorySchedule[i].date = result.effectiveAsOfDate
                       /\ \A j \in rows :
                             HistorySchedule[j].date <= HistorySchedule[i].date
                       /\ \A schedule \in RunSchedules :
                             StartsFrom(schedule, Cardinality(rows),
                                        HistorySchedule[i].remaining,
                                        result.effectiveAsOfDate)
                 /\ result.actualMonthsSoFar = Cardinality(rows)
                 /\ result.actualInterestSoFar = InterestOver(HistorySchedule, rows)

\* A run whose asOfDate lies strictly between two rows of a replay with
\* prepayments, with payments still to come.
C14_Witness ==
    /\ Ran
    /\ pastPrepayments # <<>>
    /\ terms.rateNum > 0
    /\ result.actualMonthsSoFar >= 2
    /\ result.actualInterestSoFar > 0
    /\ result.effectiveAsOfDate < asOfDate
    /\ Len(result.actual.schedule) > result.actualMonthsSoFar
    /\ Len(HistorySchedule) > result.actualMonthsSoFar

(***************************************************************************)
(* Monthly patterns.                                                       *)
(***************************************************************************)
\* The number of rows of a schedule dated after d.
RowsAfter(schedule, d) == Cardinality({i \in 1..Len(schedule) : schedule[i].date > d})

\* The only pattern of the config is a positive monthly same-as-due-date
\* pattern that starts on asOfDate.
MonthlyFromAsOf(config) ==
    /\ Len(config.patterns) = 1
    /\ config.patterns[1].kind = "monthly"
    /\ config.patterns[1].amount > 0
    /\ config.patterns[1].dayOfMonthStrategy = "same-as-due-date"
    /\ config.patterns[1].startDate = asOfDate

\* C15: for annualRate > 0, any due day and an asOfDate on or after the
\* first payment date with at least two payments of the actual path after
\* it, a scenario of one positive monthly same-as-due-date pattern starting
\* on asOfDate has totalInterest strictly below actual.totalInterest.
C15_MonthlyExtraSavesInterest ==
    (Ran /\ terms.rateNum > 0 /\ asOfDate >= terms.startDate
         /\ RowsAfter(result.actual.schedule, asOfDate) >= 2) =>
        \A s \in Summaries :
            MonthlyFromAsOf(ConfigOf(s.scenarioId))
                => /\ s.totalInterest < result.actual.totalInterest
                   /\ s.interestSavedVsActual > 0

(***************************************************************************)
(* Calls of addMonths.                                                     *)
(***************************************************************************)
MaxOffset == 3

\* Is (y, m, d) a date of the calendar?
IsDate(y, m, d) == clampDay(y, m, d) = MkIso(y, m, d)

\* First, middle and last days of the months of a leap and a common year.
IsoDateSet ==
    { iso \in { MkIso(y, m, d) : y \in {2024, 2025}, m \in 1..12,
                                 d \in {1, 15, 28, 29, 30, 31} } :
          IsDate(Year(iso), Month(iso), Day(iso)) }

CallAddMonths ==
    /\ pc = "idle"
    /\ pc' = "addMonths"
    /\ \E base \in IsoDateSet, offset \in -1..MaxOffset :
          result' = [ok |-> TRUE, base |-> base, offset |-> offset,
                     value |-> addMonths(base, offset)]
    /\ UNCHANGED <<terms, pastPrepayments, asOfDate, scenarioConfigs, syncVars>>

InitDates ==
    /\ terms = [principal |-> 3000, rateNum |-> 0, rateDen |-> 1, termMonths |-> 1,
                startDate |-> 20250115]
    /\ pastPrepayments = <<>>
    /\ asOfDate = 20250115
    /\ scenarioConfigs = <<>>
    /\ pc = "idle"
    /\ result = NoResult
    /\ SyncAtRest

NextDates == CallAddMonths

SpecDates == InitDates /\ [][NextDates]_vars

IsLeapYear(y) == (y % 4 = 0 /\ y % 100 # 0) \/ y % 400 = 0

DaysInMonth(y, m) ==
    IF m = 2 THEN (IF IsLeapYear(y) THEN 29 ELSE 28)
    ELSE IF m \in {4, 6, 9, 11} THEN 30 ELSE 31

\* C16: addMonths(base, offset) lies in the calendar month offset months
\* after the month of base, on day min(day of base, days in that month).
C16_AddMonthsClampsDay ==
    pc = "addMonths" =>
        LET months == Year(result.base) * 12 + (Month(result.base) - 1) + result.offset
            y      == months \div 12
            m      == (months % 12) + 1
        IN  result.value = MkIso(y, m, Min(Day(result.base), DaysInMonth(y, m)))

(***************************************************************************)
(* Calls with invalid terms.                                               *)
(***************************************************************************)
CallComputeMonthlyPayment ==
    /\ pc = "idle"
    /\ pc' = "computeMonthlyPayment"
    /\ result' = computeMonthlyPayment(terms)
    /\ UNCHANGED <<terms, pastPrepayments, asOfDate, scenarioConfigs, syncVars>>

\* Terms with a negative, zero or positive principal and term.
AnyTermsSet ==
    { [principal |-> pr, rateNum |-> r[1], rateDen |-> r[2], termMonths |-> n,
       startDate |-> 20250115] :
         pr \in {-3000, 0, 3000}, r \in RateSet, n \in -1..MaxTerm }

InitInvalid ==
    /\ terms \in AnyTermsSet
    /\ pastPrepayments \in PastLogSet
    /\ asOfDate \in {20250110, 20250201}
    /\ scenarioConfigs \in { << >>, << CHOOSE c \in MixedConfigSet : c.id = "X" >> }
    /\ pc = "idle"
    /\ result = NoResult
    /\ SyncAtRest

NextInvalid ==
    \/ CallComputeMonthlyPayment
    \/ CallComputeBaselineMortgage
    \/ CallComputeMortgageWithPrepayments
    \/ CallRunMortgageScenarios

SpecInvalid == InitInvalid /\ [][NextInvalid]_vars

InvalidTerms == terms.principal <= 0 \/ terms.termMonths <= 0

\* C17: computeMonthlyPayment, computeBaselineMortgage,
\* computeMortgageWithPrepayments and runMortgageScenarios fail, and return
\* no schedule, when principal <= 0 or termMonths <= 0; for valid terms
\* with a rate of 0 the payment is principal / termMonths.
C17_InvalidTermsFail ==
    /\ (pc # "idle" /\ InvalidTerms) =>
          /\ ~result.ok
          /\ DOMAIN result = {"ok", "error"}
          /\ result.error \in {"principal must be positive",
                               "termMonths must be positive"}
    /\ (pc = "computeMonthlyPayment" /\ ~InvalidTerms /\ terms.rateNum = 0) =>
          /\ result.ok
          /\ result.value * terms.termMonths = Money(terms, terms.principal)

\* A scenario run with a config, refused for its term alone.
C17_Witness ==
    /\ pc = "runMortgageScenarios"
    /\ ~result.ok
    /\ scenarioConfigs # << >>
    /\ terms.principal > 0
    /\ terms.termMonths <= 0

(***************************************************************************)
(* The dates a monthly or a biweekly pattern contributes.                  *)
(***************************************************************************)
\* The expander ran on a list of one pattern of the kind, amount positive.
ExpandedOne(kind) ==
    /\ Expanded
    /\ Len(result.patterns) = 1
    /\ result.patterns[1].kind = kind
    /\ result.patterns[1].amount > 0

DatesOf(schedule) == {schedule[i].date : i \in 1..Len(schedule)}

\* The baseline payment dates strictly after max(startDate, asOfDate) and
\* on or before the payoff date.
PaymentDatesFromStart(p) ==
    {d \in DatesOf(result.baseline.schedule) :
        /\ d > Max(p.startDate, asOfDate)
        /\ d <= result.baseline.payoffDate}

\* The date of the month of d on the specific day (the due day when unset),
\* clamped to the last day of the month.
SpecificDayIn(d, p) ==
    MkIso(Year(d), Month(d),
          Min(IF p.specificDayOfMonth # None THEN p.specificDayOfMonth
              ELSE Day(terms.startDate),
              DaysInMonth(Year(d), Month(d))))

WithinBounds(x, p) ==
    /\ x > asOfDate
    /\ x <= result.baseline.payoffDate
    /\ p.untilDate # None => x <= p.untilDate

C19_StartAndUntilInclusive ==
    (ExpandedOne("monthly")
        /\ result.patterns[1].dayOfMonthStrategy = "same-as-due-date") =>
        LET p == result.patterns[1]
            dates == DatesOf(result.baseline.schedule)
        IN  /\ (p.startDate \in dates /\ WithinBounds(p.startDate, p))
                  => p.startDate \in DOMAIN result.extraByDate
            /\ (p.untilDate \in dates /\ WithinBounds(p.untilDate, p)
                   /\ p.untilDate > p.startDate)
                  => p.untilDate \in DOMAIN result.extraByDate

MaxFortnights == 40

\* The dates anchorDate + 14 * k days.
BiweeklyGrid(p) ==
    {formatDateToIso(parseIsoToDate(p.anchorDate) + 14 * k) : k \in 0..MaxFortnights}

\* C20: a positive biweekly pattern contributes exactly the dates
\* anchorDate + 14 * k days (k >= 0) that are on or after
\* max(startDate, asOfDate), strictly after asOfDate and on or before
\* min(untilDate, payoffDate); the grid depends on anchorDate alone.
C20_BiweeklyPatternDates ==
    ExpandedOne("biweekly") =>
        LET p == result.patterns[1]
        IN  DOMAIN result.extraByDate
              = {x \in BiweeklyGrid(p) :
                    /\ x >= Max(p.startDate, asOfDate)
                    /\ WithinBounds(x, p)}

\* A cadence anchored before asOfDate and out of phase with it, cut by a
\* startDate after asOfDate and by an untilDate before the payoff date.
C20_Witness ==
    /\ ExpandedOne("biweekly")
    /\ result.patterns[1].anchorDate < asOfDate
    /\ result.patterns[1].startDate > asOfDate
    /\ result.patterns[1].untilDate # None
    /\ result.patterns[1].untilDate < result.baseline.payoffDate
    /\ DOMAIN result.extraByDate # {}
    /\ \A x \in DOMAIN result.extraByDate :
          (parseIsoToDate(x) - parseIsoToDate(asOfDate)) % 14 # 0
    /\ \E x \in BiweeklyGrid(result.patterns[1]) :
          /\ x > asOfDate
          /\ x < result.patterns[1].startDate
    /\ \E x \in BiweeklyGrid(result.patterns[1]) :
          /\ x > result.patterns[1].untilDate
          /\ x <= result.baseline.payoffDate

(***************************************************************************)
(* Past and future of the schedules of a run.                              *)
(***************************************************************************)
OnOrBeforeAsOf(row) == row.date <= asOfDate

\* C21: in result.actual and in every scenario summary the first
\* actualMonthsSoFar rows are the rows of the replayed log dated on or
\* before asOfDate, field by field, and every later row is dated strictly
\* after effectiveAsOfDate.
C21_PastRowsUntouched ==
    Ran =>
        \A schedule \in RunSchedules :
            /\ Len(schedule) >= result.actualMonthsSoFar
            /\ SubSeq(schedule, 1, result.actualMonthsSoFar)
                  = SelectSeq(HistorySchedule, OnOrBeforeAsOf)
            /\ \A i \in (result.actualMonthsSoFar + 1)..Len(schedule) :
                  schedule[i].date > result.effectiveAsOfDate

\* A run sliced after a prepaid past, with a scenario whose future differs
\* from the actual one.
C21_Witness ==
    /\ Ran
    /\ pastPrepayments # <<>>
    /\ result.actualMonthsSoFar >= 1
    /\ \E s \in Summaries :
          /\ Len(s.schedule) > result.actualMonthsSoFar
          /\ s.schedule # result.actual.schedule
          /\ s.schedule[1].payment > s.schedule[1].interest + s.schedule[1].principal

(***************************************************************************)
(* The prepayment log as an unordered input.                               *)
(***************************************************************************)
\* The reorderings of a log.
Reorderings(log) ==
    { [i \in 1..Len(log) |-> log[f[i]]] : f \in Permutations(1..Len(log)) }

engineVars == <<terms, pastPrepayments, asOfDate, scenarioConfigs, pc, result>>

\* String.prototype.trim on the keys the model passes
trim(sharedKey) == IF sharedKey = " " THEN "" ELSE sharedKey

SharedKeySet == Keys \cup {" "}

\* A reader of the last-sync item that does not compare the key.
readLastSyncOfAnyKey(store, sharedKey) == store.last_sync

readLastSync(store, sharedKey) == IF store.last_sync # Null /\ store.last_sync.shared_key = sharedKey THEN store.last_sync ELSE Null

writeLastSync(store, sharedKey, remoteUpdatedAt) == [store EXCEPT !.last_sync = [shared_key |-> sharedKey, remote_updated_at |-> remoteUpdatedAt]]

\* The devices of the model always hold both items, so the defaults of
\* lines 69-70 are never taken.
getLocalSnapshot(store) == [app_state |-> store.app_state, mortgage_ui |-> store.mortgage_ui]

applySnapshot(store, snapshot) == [store EXCEPT !.app_state = snapshot.app_state, !.mortgage_ui = snapshot.mortgage_ui]

\* The promise of syncNow rejects / resolves.
Reject(call, message) == [call EXCEPT !.pc = "settled", !.outcome = [ok |-> FALSE, error |-> message]]

Resolve(call, direction, remoteUpdatedAt) == [call EXCEPT !.pc = "settled", !.outcome = [ok |-> TRUE, direction |-> direction, remoteUpdatedAt |-> remoteUpdatedAt]]

\* remote.saveState(key, {app_state, mortgage_ui, prev_updated_at}) is sent.
SendPut(call, direction, local, prevUpdatedAt) == [call EXCEPT !.pc = "PUT", !.direction = direction, !.current = Null, !.response = Null, !.payload = [app_state |-> local.app_state, mortgage_ui |-> local.mortgage_ui, prev_updated_at |-> prevUpdatedAt]]

\* A synchroniser that records the sync before the save has answered.
AfterLoadStateRecordingFirst(store, call, remoteState) ==
    IF remoteState = Null
    THEN [storage |-> store, call |-> SendPut(call, "initialise", getLocalSnapshot(store), None)]
    ELSE LET lastSync == readLastSync(store, call.key)
         IN  IF lastSync = Null \/ remoteState.updated_at # lastSync.remote_updated_at
             THEN [storage |-> writeLastSync(applySnapshot(store, remoteState), call.key, remoteState.updated_at),
                   call |-> Resolve(call, "pull", remoteState.updated_at)]
             ELSE [storage |-> writeLastSync(store, call.key, remoteState.updated_at + 1),
                   call |-> SendPut(call, "push", getLocalSnapshot(store), remoteState.updated_at)]

\* syncNow from the return of loadState to its next await or its return.
AfterLoadState(store, call, remoteState) ==
    IF remoteState = Null
    THEN [storage |-> store, call |-> SendPut(call, "initialise", getLocalSnapshot(store), None)]
    ELSE LET lastSync == readLastSync(store, call.key)
         IN  IF lastSync = Null \/ remoteState.updated_at # lastSync.remote_updated_at
             THEN [storage |-> writeLastSync(applySnapshot(store, remoteState), call.key, remoteState.updated_at),
                   call |-> Resolve(call, "pull", remoteState.updated_at)]
             ELSE [storage |-> store, call |-> SendPut(call, "push", getLocalSnapshot(store), remoteState.updated_at)]

\* Adapter loadState on a response the worker gave: 404 is "no state".
loadState(response) == IF response.status = 404 THEN Null ELSE response.body

\* Worker, GET /state.
GetResponse(current) == IF current = Null THEN [status |-> 404, body |-> Null] ELSE [status |-> 200, body |-> current]

\* A test that rejects a write only when it claims a later version than
\* the stored one.
ConflictOnlyFromTheFuture(current, payload) == current # Null /\ payload.prev_updated_at # None /\ current.updated_at < payload.prev_updated_at

\* Worker, PUT /state: the test of line 120.
Conflict(current, payload) == current # Null /\ payload.prev_updated_at # None /\ current.updated_at # payload.prev_updated_at

\* new Date().toISOString() at the worker: not before the last timestamp.
Nows == {now \in {clock, clock + 1} : now >= 1 /\ now <= MaxClock}

SyncNow(device, sharedKey) ==
    /\ proc[device].pc \in {"idle", "settled"}
    /\ proc[device].calls < MaxSyncs
    /\ LET call == [NoCall EXCEPT !.calls = proc[device].calls + 1, !.key = trim(sharedKey), !.entry = [last_sync |-> storage[device].last_sync]]
       IN  proc' = [proc EXCEPT ![device] = IF trim(sharedKey) = "" THEN Reject(call, "Missing shared key") ELSE [call EXCEPT !.pc = "GET"]]
    /\ UNCHANGED <<kv, clock, storage, engineVars>>

WorkerGet(device) ==
    /\ proc[device].pc = "GET"
    /\ proc' = [proc EXCEPT ![device] = [@ EXCEPT !.pc = "GETdone", !.current = kv[proc[device].key], !.response = GetResponse(kv[proc[device].key])]]
    /\ UNCHANGED <<kv, clock, storage, engineVars>>

\* Network or authentication failure, or a status other than 200 and 404.
LoadStateFails(device) ==
    /\ proc[device].pc \in {"GET", "GETdone"}
    /\ proc' = [proc EXCEPT ![device] = Reject(@, "Remote load failed")]
    /\ UNCHANGED <<kv, clock, storage, engineVars>>

LoadStateReturns(device) ==
    /\ proc[device].pc = "GETdone"
    /\ LET remoteState == loadState(proc[device].response)
           after == AfterLoadState(storage[device], [proc[device] EXCEPT !.remoteState = remoteState], remoteState)
       IN  /\ storage' = [storage EXCEPT ![device] = after.storage]
           /\ proc' = [proc EXCEPT ![device] = after.call]
    /\ UNCHANGED <<kv, clock, engineVars>>

\* The payloads syncNow sends hold both states, so the 400 of line 112 is
\* not taken.
WorkerPutRead(device) ==
    /\ proc[device].pc = "PUT"
    /\ proc' = [proc EXCEPT ![device] = [@ EXCEPT !.pc = "PUTread", !.current = kv[proc[device].key]]]
    /\ UNCHANGED <<kv, clock, storage, engineVars>>

WorkerPutWrite(device) ==
    /\ proc[device].pc = "PUTread"
    /\ IF Conflict(proc[device].current, proc[device].payload)
       THEN /\ proc' = [proc EXCEPT ![device] = [@ EXCEPT !.pc = "PUTdone", !.response = [status |-> 409, updated_at |-> None]]]
            /\ UNCHANGED <<kv, clock>>
       ELSE \E now \in Nows :
            /\ kv' = [kv EXCEPT ![proc[device].key] = [app_state |-> proc[device].payload.app_state, mortgage_ui |-> proc[device].payload.mortgage_ui, updated_at |-> now]]
            /\ clock' = now
            /\ proc' = [proc EXCEPT ![device] = [@ EXCEPT !.pc = "PUTdone", !.response = [status |-> 200, updated_at |-> now]]]
    /\ UNCHANGED <<storage, engineVars>>

\* Network or authentication failure, a failed KV operation, a lost response.
SaveStateFails(device) ==
    /\ proc[device].pc \in {"PUT", "PUTread", "PUTdone"}
    /\ proc' = [proc EXCEPT ![device] = Reject(@, "Remote save failed")]
    /\ UNCHANGED <<kv, clock, storage, engineVars>>

\* Adapter saveState on the worker's response, then the end of syncNow.
SaveStateReturns(device) ==
    /\ proc[device].pc = "PUTdone"
    /\ IF proc[device].response.status = 200
       THEN /\ storage' = [storage EXCEPT ![device] = writeLastSync(@, proc[device].key, proc[device].response.updated_at)]
            /\ proc' = [proc EXCEPT ![device] = Resolve(@, @.direction, @.response.updated_at)]
       ELSE /\ proc' = [proc EXCEPT ![device] = Reject(@, "Remote save failed")]
            /\ UNCHANGED storage
    /\ UNCHANGED <<kv, clock, engineVars>>

\* The user changes the cashflow state on a device.
SaveAppState(device) ==
    /\ storage[device].app_state # OwnAppState(device)
    /\ storage' = [storage EXCEPT ![device].app_state = OwnAppState(device)]
    /\ UNCHANGED <<kv, clock, proc, engineVars>>

InitSync ==
    /\ terms \in {t \in TermsSet : t.termMonths = 1 /\ t.rateNum = 0 /\ t.startDate = 20250115}
    /\ pastPrepayments = <<>>
    /\ asOfDate = 20250115
    /\ scenarioConfigs = <<>>
    /\ pc = "idle"
    /\ result = NoResult
    /\ SyncAtRest

NextSync ==
    \E device \in Devices :
        \/ \E sharedKey \in SharedKeySet : SyncNow(device, sharedKey)
        \/ WorkerGet(device)
        \/ LoadStateFails(device)
        \/ LoadStateReturns(device)
        \/ WorkerPutRead(device)
        \/ WorkerPutWrite(device)
        \/ SaveStateFails(device)
        \/ SaveStateReturns(device)
        \/ SaveAppState(device)

SpecSync == InitSync /\ [][NextSync]_vars

(***************************************************************************)
(* Properties of the synchroniser and the worker.                          *)
(***************************************************************************)
\* The device's call of syncNow settles in this step, successfully.
Succeeds(device) == proc[device].pc # "settled" /\ proc'[device].pc = "settled" /\ proc'[device].outcome.ok

\* The last-sync item of a localStorage, if it was recorded for the key.
RecordedFor(store, sharedKey) == IF store.last_sync = Null THEN Null ELSE IF store.last_sync.shared_key = sharedKey THEN store.last_sync ELSE Null

\* The direction the rule gives for a loaded remote state and a record.
DirectionFor(remoteState, lastSync) == IF remoteState = Null THEN "initialise" ELSE IF lastSync = Null THEN "pull" ELSE IF remoteState.updated_at # lastSync.remote_updated_at THEN "pull" ELSE "push"

\* The PUT a call has sent carries this local state and prev_updated_at.
Pushed(call, store, prevUpdatedAt) == call.payload = [app_state |-> store.app_state, mortgage_ui |-> store.mortgage_ui, prev_updated_at |-> prevUpdatedAt]

AnswersPut(device) == proc[device].pc = "PUTread" /\ proc'[device].pc = "PUTdone"

AnswersGet(device) == proc[device].pc = "GET" /\ proc'[device].pc = "GETdone"

\* The request carries a prev_updated_at other than that of the snapshot.
Stale(snapshot, payload) == snapshot # Null /\ payload.prev_updated_at # None /\ payload.prev_updated_at # snapshot.updated_at

PutAnswered(device) == proc[device].payload # Null /\ proc[device].response # Null

\* C25: when two devices have loaded the same remote snapshot and both
\* have sent a PUT with its updated_at as prev_updated_at, at most one of
\* the two PUTs is answered 200, however the worker's KV reads and KV
\* writes interleave.
C25_AtMostOnePutSucceeds ==
    \A device \in Devices, other \in Devices :
        (/\ device # other
         /\ proc[device].key = proc[other].key
         /\ proc[device].remoteState # Null
         /\ proc[device].remoteState = proc[other].remoteState
         /\ PutAnswered(device) /\ PutAnswered(other)
         /\ proc[device].payload.prev_updated_at = proc[device].remoteState.updated_at
         /\ proc[other].payload.prev_updated_at = proc[other].remoteState.updated_at)
        => ~(proc[device].response.status = 200 /\ proc[other].response.status = 200)

\* The device's call of syncNow settles in this step, with an error.
Rejects(device) == proc[device].pc # "settled" /\ proc'[device].pc = "settled" /\ ~proc'[device].outcome.ok

\* The call takes a step (the user's edits leave the call where it is).
Steps(device) == proc'[device] # proc[device]

\* C26: a remote failure is never a success.  A PUT answered with
\* anything but 200 (a 409 conflict) makes the call reject, as every
\* failed load or save does; no step of a call other than its successful
\* return changes the device's saved app state, mortgage UI state or
\* last-sync record, and when a call rejects the last-sync record is the
\* one the call found.
C26_FailureLeavesLocalState ==
    [][\A device \in Devices :
          /\ (Steps(device) /\ proc[device].pc = "PUTdone" /\ proc[device].response.status # 200) => Rejects(device)
          /\ (Steps(device) /\ ~Succeeds(device)) => storage'[device] = storage[device]
          /\ Rejects(device) => storage'[device].last_sync = proc'[device].entry.last_sync]_vars

\* A call has rejected after its PUT was answered 409, another after its
\* load failed, and each device's last-sync record is the one its call
\* found.
C26_Witness ==
    \E device \in Devices, other \in Devices :
        /\ proc[device].pc = "settled" /\ ~proc[device].outcome.ok
        /\ proc[device].response # Null /\ proc[device].payload # Null /\ proc[device].response.status = 409
        /\ storage[device].last_sync = proc[device].entry.last_sync
        /\ proc[other].pc = "settled" /\ ~proc[other].outcome.ok
        /\ proc[other].outcome.error = "Remote load failed"
        /\ storage[other].last_sync = proc[other].entry.last_sync

\* The payment dates of the loan: addMonths(startDate, i), 0 <= i < termMonths.
BaselinePaymentDates == {addMonths(terms.startDate, i) : i \in 0..(terms.termMonths - 1)}

\* The dates of the rows a run has simulated (those after the kept past).
SimulatedDates(schedule) == {schedule[i].date : i \in (result.actualMonthsSoFar + 1)..Len(schedule)}

\* C27: every simulated future row of the actual schedule and of every
\* scenario schedule is dated on a payment date of the loan,
\* addMonths(terms.startDate, i) for some 0 <= i < termMonths.
C27_FutureRowsOnPaymentDates ==
    Ran => \A schedule \in RunSchedules : SimulatedDates(schedule) \subseteq BaselinePaymentDates

\* The balance before row i of a schedule of the loan.
PreviousRemaining(schedule, i) == IF i = 1 THEN Money(terms, terms.principal) ELSE schedule[i - 1].remaining

\* C28: in every row of every schedule the engine produces, the drop in
\* balance is the cash paid beyond interest:
\* previousRemaining - remaining = payment - interest, previousRemaining
\* of the first row being terms.principal.
C28_BalanceConservation ==
    \A schedule \in ProducedSchedules :
        \A i \in 1..Len(schedule) :
            PreviousRemaining(schedule, i) - schedule[i].remaining = schedule[i].payment - schedule[i].interest

(***************************************************************************)
(* Scenario runs on ordinary terms and on terms whose annuity payment, as  *)
(* computed, is no more than one month's interest: a monthly rate of 1     *)
(* (annualRate 12) over 60 months.                                         *)
(***************************************************************************)
ExtremeTermsSet == { [principal |-> 3000, rateNum |-> 1, rateDen |-> 1, termMonths |-> 60, startDate |-> 20250115] }

InitTerms ==
    /\ terms \in TermsSet \cup ExtremeTermsSet
    /\ pastPrepayments \in PastLogSet
    /\ asOfDate \in AsOfDateSet
    /\ scenarioConfigs \in SingleConfigSet(asOfDate)
    /\ pc = "idle"
    /\ result = NoResult
    /\ SyncAtRest

NextTerms == CallRunMortgageScenarios

SpecTerms == InitTerms /\ [][NextTerms]_vars

\* The payment computed for the terms exceeds one month's interest on the
\* principal.
PaymentAmortizes == computeMonthlyPayment(terms).value > monthlyInterest(terms, Money(terms, terms.principal))

\* The run ended with a result, and every schedule of the result is paid
\* off (to within a cent) with at most termMonths - actualMonthsSoFar
\* simulated rows.
EndedPaidOff ==
    /\ result.ok
    /\ \A schedule \in RunSchedules :
          /\ Len(schedule) - result.actualMonthsSoFar <= terms.termMonths - result.actualMonthsSoFar
          /\ Len(schedule) > 0
          /\ ~GtOneCent(terms, LastRemaining(schedule))

BetweenPaymentsAsOfSet == {20250212, 20250214, 20250220, 20250301}

InitAsOf ==
    /\ terms \in TermsSet
    /\ pastPrepayments \in PastLogSet
    /\ asOfDate \in BetweenPaymentsAsOfSet
    /\ scenarioConfigs \in {<<>>} \cup SingleConfigSet(asOfDate)
    /\ pc = "idle"
    /\ result = NoResult
    /\ SyncAtRest

NextAsOf == CallRunMortgageScenarios

SpecAsOf == InitAsOf /\ [][NextAsOf]_vars

\* The dates and the balances of a schedule, row by row.
DatesAndBalances(schedule) == [i \in 1..Len(schedule) |-> <<schedule[i].date, schedule[i].remaining>>]

\* C30: when asOfDate is on or after the first payment date and every
\* prepayment of the log is dated on or before asOfDate, result.actual has
\* the payment dates, the remaining balances and the totalInterest of
\* computeMortgageWithPrepayments(terms, pastPrepayments).
C30_ActualEqualsReplay ==
    (/\ Ran
     /\ asOfDate >= addMonths(terms.startDate, 0)
     /\ \A k \in 1..Len(pastPrepayments) : pastPrepayments[k].date <= asOfDate)
    => LET replay == computeMortgageWithPrepayments(terms, pastPrepayments)
       IN  /\ DatesAndBalances(result.actual.schedule) = DatesAndBalances(replay.schedule)
           /\ result.actual.totalInterest = replay.totalInterest

====
